---- MODULE Spec2Model ----
(***************************************************************************)
(* A model of src/aws/s3/upload.py: the ObjectWrapper facade over one     *)
(* remote S3 object (put, get, list, copy, put_acl, get_acl) and the demo *)
(* driver upload_react_files.                                             *)
(*                                                                         *)
(* The remote service is modelled as a store of objects keyed by key; a   *)
(* remote request either takes effect atomically or fails and changes     *)
(* nothing.  Each facade call is split at its remote requests: the local  *)
(* code between two requests (logging, except/finally handling) belongs   *)
(* to the action of the request that precedes it.                         *)
(***************************************************************************)
EXTENDS Integers, Sequences, FiniteSets, TLC

(* ------------------------------ bounds -------------------------------- *)

\* Facade calls the caller makes in a row, over all six operations
\* (specification Spec).
MaxCalls == 1
\* Facade calls the caller makes in a row in the specifications of one pair
\* of operations (SpecRoundTrip, SpecAcl).
MaxSeqCalls == 2
\* Longest byte payload; bytes are drawn from ByteVals.
MaxPayloadLen == 1

ByteVals == {0, 255}

Payloads == UNION {[1..n -> ByteVals] : n \in 0..MaxPayloadLen}

(* ------------------------- keys, paths, names ------------------------- *)

\* Keys and paths are character sequences, so that "starts with" and the
\* driver's concatenation of directory and file name are computed.
KeyJsA == <<"j","s","/","a",".","j","s">>
KeyImgB == <<"i","m","g","/","b",".","p","n","g">>
KeyJsC == <<"j","s","/","c",".","j","s">>

FixtureKeys == {KeyJsA, KeyImgB, KeyJsC}

directory_file_names ==
    <<".",".","/",".",".","/",".",".","/","E","v","a","l","u","a","t","i","o","n",
      "R","o","o","m","_","R","e","a","c","t","/","b","u","i","l","d","/">>

list_file_names ==
    << <<"j","s","/","i","n","d","e","x","_","e","x","a","m",".","j","s">>,
       <<"j","s","/","i","n","d","e","x","_","p","u","b","l","i","c",".","j","s">>,
       <<"j","s","/","i","n","d","e","x",".","j","s">> >>

DriverKeys == {list_file_names[i] : i \in 1..Len(list_file_names)}

AllKeys == FixtureKeys \cup DriverKeys

\* The local files put may be asked to open.
Paths == {directory_file_names \o list_file_names[i] : i \in 1..Len(list_file_names)}

\* The bytes a local file holds when it exists (one payload per path).
FileBytes(path) ==
    IF path = directory_file_names \o list_file_names[1] THEN <<0>>
    ELSE IF path = directory_file_names \o list_file_names[2] THEN <<255>>
    ELSE <<>>

DriverEmail == "fcernaf@gmail.com"

Emails == {DriverEmail, "other@example.com"}

Callers == {"c1", "c2"}

(* ------------------------------ errors -------------------------------- *)

Err(type, code) == [type |-> type, code |-> code]

ClientError(code) == Err("ClientError", code)

Unresolvable == "UnresolvableGrantByEmailAddress"

\* What a remote request may raise: a ClientError with a service code, or an
\* error of the client library that is not a ClientError.
RemoteErrors == {ClientError("AccessDenied"), Err("BotoCoreError", "")}

\* What a request on an ACL may raise: the service also reports a grantee
\* email address it cannot resolve.
AclErrors == RemoteErrors \cup {ClientError(Unresolvable)}

\* What the existence poll may raise: the waiter turns the service's error
\* responses and its own timeout into WaiterError, which is no ClientError;
\* errors of the client library pass through it.
WaitErrors == {Err("WaiterError", ""), Err("BotoCoreError", "")}

IOError == Err("IOError", "")

KeyError == Err("KeyError", "")

IsClientError(e) == e.type = "ClientError"

(* --------------------------- remote objects --------------------------- *)

\* An owner as the service reports it; DisplayName is not always present.
Owners == {[ID |-> "owner-1", DisplayName |-> "alice"], [ID |-> "owner-2"]}

\* The grants attribute of an Acl resource: None or a list.
GrantsNone == [none |-> TRUE, list |-> <<>>]

GrantsList(l) == [none |-> FALSE, list |-> l]

OwnerGrant(owner) ==
    [Grantee |-> [Type |-> "CanonicalUser", ID |-> owner.ID],
     Permission |-> "FULL_CONTROL"]

AllUsersGrant ==
    [Grantee |-> [Type |-> "Group", URI |-> "AllUsers"], Permission |-> "READ"]

\* The canned ACL 'public-read'.
PublicRead(owner) == <<OwnerGrant(owner), AllUsersGrant>>

\* The default ACL of an object a server-side copy creates.
Private(owner) == <<OwnerGrant(owner)>>

Absent == [exists |-> FALSE, content |-> <<>>, grants |-> GrantsNone,
           owner |-> [ID |-> ""]]

Stored(content, grants, owner) ==
    [exists |-> TRUE, content |-> content, grants |-> grants, owner |-> owner]

(* ------------------------------- state -------------------------------- *)

VARIABLES
    remote,   \* the service: key -> object
    fs,       \* the local filesystem: path -> does the file open
    account,  \* the owner identity of the caller's credentials
    obj,      \* caller -> key of the facade's object (self.object)
    pc,       \* caller -> position in the facade call
    op,       \* caller -> the facade call in progress: name and argument
    local,    \* caller -> local variables of the call
    handle,   \* caller -> the file handle put opened: none, open, closed
    trace,    \* caller -> remote requests and log lines of the call, in order
    result,   \* caller -> how the call ended
    pre,      \* caller -> the remote store when the call started
    prev,     \* caller -> the call before this one, its result and its pre
    ncalls,   \* caller -> calls started
    order,    \* remote ACL requests of all callers, in the order they ran
    dpc,      \* driver: position in upload_react_files
    dfile,    \* driver: index into list_file_names
    devents   \* driver: what happened, in order

facadeVars == <<remote, pc, op, local, handle, trace, result, pre, prev>>

envVars == <<fs, account>>

driverVars == <<dpc, dfile, devents>>

vars == <<remote, fs, account, obj, pc, op, local, handle, trace, result, pre,
          prev, ncalls, order, dpc, dfile, devents>>

NoOp == [name |-> "none", arg |-> "none"]

NoLocal == [put_data |-> "none"]

NoResult == [status |-> "none", value |-> "None", err |-> Err("", "")]

Returned(value) == [status |-> "returned", value |-> value, err |-> Err("", "")]

Raised(err) == [status |-> "raised", value |-> "None", err |-> err]

NoPrev == [op |-> NoOp, result |-> NoResult]

\* A remote request in the trace, with how it ended ("ok" or the error).
Request(call, outcome) == [kind |-> "remote", call |-> call, outcome |-> outcome]

Ok == Err("ok", "")

\* logger.info / logger.exception
LogLine(level) == [kind |-> "log", call |-> level, outcome |-> Ok]

Idle(c) == pc[c] \in {"idle", "done"}

\* A facade method is entered: the previous call is remembered, the state
\* of the service is noted, and the call's own state starts empty.
Enter(c, name, arg) ==
    /\ Idle(c)
    /\ op' = [op EXCEPT ![c] = [name |-> name, arg |-> arg]]
    /\ pre' = [pre EXCEPT ![c] = remote]
    /\ prev' = [prev EXCEPT ![c] =
                  IF pc[c] = "done"
                  THEN [op |-> op[c], result |-> result[c], pre |-> pre[c]]
                  ELSE NoPrev]

(* -------------------------------- put --------------------------------- *)

\* put's data argument: bytes, or a str taken as a file name.
BytesData(b) == [kind |-> "bytes", bytes |-> b]

StrData(path) == [kind |-> "str", path |-> path]

PutInputs == {BytesData(b) : b \in Payloads} \cup {StrData(p) : p \in Paths}

\* Variant: the handle is closed nowhere.
FinallyCloseMissing(h) == h

\* finally: if getattr(put_data, 'close', None): put_data.close()
FinallyClose(h) == IF h = "open" THEN "closed" ELSE h

\* Variant: the file was read to its end before the upload, which then
\* sends nothing.
BodyFileConsumed(put_data) ==
    IF put_data.kind = "bytes" THEN put_data.bytes ELSE <<>>

\* The bytes object.put(Body=put_data) uploads: the bytes themselves, or what
\* reading the open file yields.
Body(put_data) ==
    IF put_data.kind = "bytes" THEN put_data.bytes ELSE FileBytes(put_data.path)

\* Variant: a failed open is logged and the upload goes on with the name.
PutOpenNoAbort(c, data) ==
    /\ Enter(c, "put", data)
    /\ UNCHANGED remote
    /\ trace' = [trace EXCEPT ![c] =
                   IF data.kind = "str" /\ ~fs[data.path]
                   THEN <<LogLine("exception")>> ELSE <<>>]
    /\ result' = [result EXCEPT ![c] = NoResult]
    /\ handle' = [handle EXCEPT ![c] =
                    IF data.kind = "str" /\ fs[data.path] THEN "open" ELSE "none"]
    /\ local' = [local EXCEPT ![c] =
                   [put_data |-> IF data.kind = "str"
                                 THEN [kind |-> "file", path |-> data.path]
                                 ELSE data]]
    /\ pc' = [pc EXCEPT ![c] = "put.object_put"]

\* Lines 21-27: a str is opened in 'rb' mode; IOError is logged and re-raised
\* before the try block of the upload is entered.
PutOpen(c, data) ==
    /\ Enter(c, "put", data)
    /\ UNCHANGED remote
    /\ IF data.kind = "str" /\ ~fs[data.path]
       THEN /\ trace' = [trace EXCEPT ![c] = <<LogLine("exception")>>]
            /\ result' = [result EXCEPT ![c] = Raised(IOError)]
            /\ handle' = [handle EXCEPT ![c] = "none"]
            /\ local' = [local EXCEPT ![c] = NoLocal]
            /\ pc' = [pc EXCEPT ![c] = "done"]
       ELSE /\ trace' = [trace EXCEPT ![c] = <<>>]
            /\ result' = [result EXCEPT ![c] = NoResult]
            /\ handle' = [handle EXCEPT ![c] =
                            IF data.kind = "str" THEN "open" ELSE "none"]
            /\ local' = [local EXCEPT ![c] =
                           [put_data |-> IF data.kind = "str"
                                         THEN [kind |-> "file", path |-> data.path]
                                         ELSE data]]
            /\ pc' = [pc EXCEPT ![c] = "put.object_put"]

\* Variant: the object is deleted before it is put, so a failed put leaves
\* no object.
PutObjectDeleteFirst(c) ==
    /\ pc[c] = "put.object_put"
    /\ UNCHANGED <<op, local, pre, prev>>
    /\ \/ /\ remote' = [remote EXCEPT ![obj[c]] =
                          Stored(Body(local[c].put_data),
                                 GrantsList(PublicRead(account)), account)]
          /\ trace' = [trace EXCEPT ![c] = Append(@, Request("put", Ok))]
          /\ pc' = [pc EXCEPT ![c] = "put.wait_until_exists"]
          /\ UNCHANGED <<handle, result>>
       \/ \E e \in RemoteErrors :
            /\ remote' = [remote EXCEPT ![obj[c]] = Absent]
            /\ trace' = [trace EXCEPT ![c] =
                           IF IsClientError(e)
                           THEN @ \o <<Request("put", e), LogLine("exception")>>
                           ELSE Append(@, Request("put", e))]
            /\ handle' = [handle EXCEPT ![c] = FinallyClose(@)]
            /\ result' = [result EXCEPT ![c] = Raised(e)]
            /\ pc' = [pc EXCEPT ![c] = "done"]

\* Line 30, and lines 35-42 when it fails.
PutObject(c) ==
    /\ pc[c] = "put.object_put"
    /\ UNCHANGED <<op, local, pre, prev>>
    /\ \/ /\ remote' = [remote EXCEPT ![obj[c]] =
                          Stored(Body(local[c].put_data),
                                 GrantsList(PublicRead(account)), account)]
          /\ trace' = [trace EXCEPT ![c] = Append(@, Request("put", Ok))]
          /\ pc' = [pc EXCEPT ![c] = "put.wait_until_exists"]
          /\ UNCHANGED <<handle, result>>
       \/ \E e \in RemoteErrors :
            /\ UNCHANGED remote
            /\ trace' = [trace EXCEPT ![c] =
                           IF IsClientError(e)
                           THEN @ \o <<Request("put", e), LogLine("exception")>>
                           ELSE Append(@, Request("put", e))]
            /\ handle' = [handle EXCEPT ![c] = FinallyClose(@)]
            /\ result' = [result EXCEPT ![c] = Raised(e)]
            /\ pc' = [pc EXCEPT ![c] = "done"]

\* Lines 31-34, and lines 35-42.
PutWait(c) ==
    /\ pc[c] = "put.wait_until_exists"
    /\ UNCHANGED <<remote, op, local, pre, prev>>
    /\ handle' = [handle EXCEPT ![c] = FinallyClose(@)]
    /\ pc' = [pc EXCEPT ![c] = "done"]
    /\ \/ /\ trace' = [trace EXCEPT ![c] =
                         @ \o <<Request("wait_until_exists", Ok), LogLine("info")>>]
          /\ result' = [result EXCEPT ![c] = Returned("None")]
       \/ \E e \in WaitErrors :
            /\ trace' = [trace EXCEPT ![c] =
                           IF IsClientError(e)
                           THEN @ \o <<Request("wait_until_exists", e),
                                       LogLine("exception")>>
                           ELSE Append(@, Request("wait_until_exists", e))]
            /\ result' = [result EXCEPT ![c] = Raised(e)]

(* -------------------------------- get --------------------------------- *)

\* Lines 50-61: one remote request, self.object.get()['Body'].read(); the
\* whole body is returned.  An object that does not exist cannot be read.
Get(c) ==
    /\ Enter(c, "get", "none")
    /\ UNCHANGED <<remote, local, handle>>
    /\ pc' = [pc EXCEPT ![c] = "done"]
    /\ \/ /\ remote[obj[c]].exists
          /\ trace' = [trace EXCEPT ![c] = <<Request("get", Ok), LogLine("info")>>]
          /\ result' = [result EXCEPT ![c] = Returned(remote[obj[c]].content)]
       \/ \E e \in RemoteErrors \cup {ClientError("NoSuchKey")} :
            /\ e.code = "NoSuchKey" <=> ~remote[obj[c]].exists
            /\ trace' = [trace EXCEPT ![c] =
                           IF IsClientError(e)
                           THEN <<Request("get", e), LogLine("exception")>>
                           ELSE <<Request("get", e)>>]
            /\ result' = [result EXCEPT ![c] = Raised(e)]

(* -------------------------------- list -------------------------------- *)

StartsWith(key, prefix) ==
    /\ Len(prefix) <= Len(key)
    /\ SubSeq(key, 1, Len(prefix)) = prefix

\* The keys of the objects the bucket holds.
BucketKeys == {k \in AllKeys : remote[k].exists}

\* bucket.objects.all()
ObjectsAll == BucketKeys

\* bucket.objects.filter(Prefix=prefix)
ObjectsFilter(prefix) == {k \in BucketKeys : StartsWith(k, prefix.str)}

\* list's prefix argument: None or a str.
PrefixNone == [none |-> TRUE, str |-> <<>>]

PrefixStr(s) == [none |-> FALSE, str |-> s]

\* Variant: the test is inverted.
NotPrefixInverted(prefix) == ~(prefix.none \/ prefix.str = <<>>)

\* Python's "not prefix": true of None and of the empty string.
NotPrefix(prefix) == prefix.none \/ prefix.str = <<>>

Prefixes ==
    {PrefixNone, PrefixStr(<<>>), PrefixStr(<<"j","s","/">>), PrefixStr(<<"j">>),
     PrefixStr(<<"i","m","g","/">>), PrefixStr(KeyJsA), PrefixStr(<<"s","/">>),
     PrefixStr(KeyJsA \o <<"x">>)}

\* Lines 72-83: one remote listing, materialised; the order of the result is
\* the service's, so the result is kept as the set of keys.
List(c, prefix) ==
    /\ Enter(c, "list", prefix)
    /\ UNCHANGED <<remote, local, handle>>
    /\ pc' = [pc EXCEPT ![c] = "done"]
    /\ \/ /\ trace' = [trace EXCEPT ![c] = <<Request("list", Ok), LogLine("info")>>]
          /\ result' = [result EXCEPT ![c] =
                          Returned(IF NotPrefix(prefix)
                                   THEN ObjectsAll
                                   ELSE ObjectsFilter(prefix))]
       \/ \E e \in RemoteErrors :
            /\ trace' = [trace EXCEPT ![c] =
                           IF IsClientError(e)
                           THEN <<Request("list", e), LogLine("exception")>>
                           ELSE <<Request("list", e)>>]
            /\ result' = [result EXCEPT ![c] = Raised(e)]

(* -------------------------------- copy -------------------------------- *)

\* Variant: copy returns as soon as the copy request succeeded, without the
\* existence poll.
CopyFromNoWait(c, dest) ==
    /\ Enter(c, "copy", dest)
    /\ UNCHANGED <<local, handle>>
    /\ pc' = [pc EXCEPT ![c] = "done"]
    /\ \/ /\ remote[obj[c]].exists
          /\ remote' = [remote EXCEPT ![dest] =
                          Stored(remote[obj[c]].content,
                                 GrantsList(Private(account)), account)]
          /\ trace' = [trace EXCEPT ![c] =
                         <<Request("copy_from", Ok), LogLine("info")>>]
          /\ result' = [result EXCEPT ![c] = Returned("None")]
       \/ \E e \in RemoteErrors \cup {ClientError("NoSuchKey")} :
            /\ e.code = "NoSuchKey" <=> ~remote[obj[c]].exists
            /\ UNCHANGED remote
            /\ trace' = [trace EXCEPT ![c] =
                           IF IsClientError(e)
                           THEN <<Request("copy_from", e), LogLine("exception")>>
                           ELSE <<Request("copy_from", e)>>]
            /\ result' = [result EXCEPT ![c] = Raised(e)]

\* Lines 91-95, and 101-106 when it fails: the server-side copy.  The
\* destination gets the source's bytes and the default private ACL.
CopyFrom(c, dest) ==
    /\ Enter(c, "copy", dest)
    /\ UNCHANGED <<local, handle>>
    /\ \/ /\ remote[obj[c]].exists
          /\ remote' = [remote EXCEPT ![dest] =
                          Stored(remote[obj[c]].content,
                                 GrantsList(Private(account)), account)]
          /\ trace' = [trace EXCEPT ![c] = <<Request("copy_from", Ok)>>]
          /\ result' = [result EXCEPT ![c] = NoResult]
          /\ pc' = [pc EXCEPT ![c] = "copy.wait_until_exists"]
       \/ \E e \in RemoteErrors \cup {ClientError("NoSuchKey")} :
            /\ e.code = "NoSuchKey" <=> ~remote[obj[c]].exists
            /\ UNCHANGED remote
            /\ trace' = [trace EXCEPT ![c] =
                           IF IsClientError(e)
                           THEN <<Request("copy_from", e), LogLine("exception")>>
                           ELSE <<Request("copy_from", e)>>]
            /\ result' = [result EXCEPT ![c] = Raised(e)]
            /\ pc' = [pc EXCEPT ![c] = "done"]

\* Lines 96-100, and 101-106 when the poll fails.
CopyWait(c) ==
    /\ pc[c] = "copy.wait_until_exists"
    /\ UNCHANGED <<remote, op, local, handle, pre, prev>>
    /\ pc' = [pc EXCEPT ![c] = "done"]
    /\ \/ /\ trace' = [trace EXCEPT ![c] =
                         @ \o <<Request("wait_until_exists", Ok), LogLine("info")>>]
          /\ result' = [result EXCEPT ![c] = Returned("None")]
       \/ \E e \in WaitErrors :
            /\ trace' = [trace EXCEPT ![c] =
                           IF IsClientError(e)
                           THEN @ \o <<Request("wait_until_exists", e),
                                       LogLine("exception")>>
                           ELSE Append(@, Request("wait_until_exists", e))]
            /\ result' = [result EXCEPT ![c] = Raised(e)]

(* ------------------------------ put_acl ------------------------------- *)

\* Lines 120-126: the grant put_acl appends.
EmailGrant(email) ==
    [Grantee |-> [Type |-> "AmazonCustomerByEmail", EmailAddress |-> email],
     Permission |-> "READ"]

\* Line 119: grants = acl.grants if acl.grants else []
GrantsOrEmpty(g) == IF g.none \/ g.list = <<>> THEN <<>> ELSE g.list

\* Variant: only the new grant is sent, the grants read are not kept.
AppendGrantOnly(g, email) == <<EmailGrant(email)>>

\* Variant: the new grant is put first.
PrependGrant(g, email) == <<EmailGrant(email)>> \o GrantsOrEmpty(g)

\* Lines 119-126: the list put_acl sends, from the list it read.
AppendGrant(g, email) == Append(GrantsOrEmpty(g), EmailGrant(email))

\* Lines 116-126, and 134-136 when the read fails: the Acl resource loads on
\* the first attribute read (acl.grants); grants and owner are then local.
AclLoad(c, email) ==
    /\ Enter(c, "put_acl", email)
    /\ UNCHANGED <<remote, handle>>
    /\ \/ /\ remote[obj[c]].exists
          /\ local' = [local EXCEPT ![c] =
                         [grants |-> AppendGrant(remote[obj[c]].grants, email),
                          owner |-> remote[obj[c]].owner]]
          /\ trace' = [trace EXCEPT ![c] = <<Request("acl.load", Ok)>>]
          /\ result' = [result EXCEPT ![c] = NoResult]
          /\ pc' = [pc EXCEPT ![c] = "put_acl.acl_put"]
       \/ \E e \in AclErrors \cup {ClientError("NoSuchKey")} :
            /\ e.code = "NoSuchKey" <=> ~remote[obj[c]].exists
            /\ local' = [local EXCEPT ![c] = NoLocal]
            /\ trace' = [trace EXCEPT ![c] =
                           IF IsClientError(e)
                           THEN <<Request("acl.load", e), LogLine("exception")>>
                           ELSE <<Request("acl.load", e)>>]
            /\ result' = [result EXCEPT ![c] = Raised(e)]
            /\ pc' = [pc EXCEPT ![c] = "done"]

\* Variant: the facade itself swallows the unresolvable-grantee error.
AclPutSwallow(c) ==
    /\ pc[c] = "put_acl.acl_put"
    /\ UNCHANGED <<op, local, handle, pre, prev>>
    /\ pc' = [pc EXCEPT ![c] = "done"]
    /\ \/ /\ remote[obj[c]].exists
          /\ remote' = [remote EXCEPT ![obj[c]] =
                          [@ EXCEPT !.grants = GrantsList(local[c].grants),
                                    !.owner = local[c].owner]]
          /\ trace' = [trace EXCEPT ![c] =
                         @ \o <<Request("acl.put", Ok), LogLine("info")>>]
          /\ result' = [result EXCEPT ![c] = Returned("None")]
       \/ \E e \in AclErrors \cup {ClientError("NoSuchKey")} :
            /\ e.code = "NoSuchKey" <=> ~remote[obj[c]].exists
            /\ UNCHANGED remote
            /\ trace' = [trace EXCEPT ![c] =
                           @ \o <<Request("acl.put", e), LogLine("exception")>>]
            /\ result' = [result EXCEPT ![c] =
                            IF e.code = Unresolvable THEN Returned("None")
                            ELSE Raised(e)]

\* Lines 127-136: the whole policy (grants and owner) replaces the object's.
AclPut(c) ==
    /\ pc[c] = "put_acl.acl_put"
    /\ UNCHANGED <<op, local, handle, pre, prev>>
    /\ pc' = [pc EXCEPT ![c] = "done"]
    /\ \/ /\ remote[obj[c]].exists
          /\ remote' = [remote EXCEPT ![obj[c]] =
                          [@ EXCEPT !.grants = GrantsList(local[c].grants),
                                    !.owner = local[c].owner]]
          /\ trace' = [trace EXCEPT ![c] =
                         @ \o <<Request("acl.put", Ok), LogLine("info")>>]
          /\ result' = [result EXCEPT ![c] = Returned("None")]
       \/ \E e \in AclErrors \cup {ClientError("NoSuchKey")} :
            /\ e.code = "NoSuchKey" <=> ~remote[obj[c]].exists
            /\ UNCHANGED remote
            /\ trace' = [trace EXCEPT ![c] =
                           IF IsClientError(e)
                           THEN @ \o <<Request("acl.put", e), LogLine("exception")>>
                           ELSE Append(@, Request("acl.put", e))]
            /\ result' = [result EXCEPT ![c] = Raised(e)]

(* ------------------------------ get_acl ------------------------------- *)

\* Lines 144-153: the Acl resource loads when acl.owner is read for the log
\* line; an owner without a DisplayName makes that line raise KeyError.
AclGet(c) ==
    /\ Enter(c, "get_acl", "none")
    /\ UNCHANGED <<remote, local, handle>>
    /\ pc' = [pc EXCEPT ![c] = "done"]
    /\ \/ /\ remote[obj[c]].exists
          /\ IF "DisplayName" \in DOMAIN remote[obj[c]].owner
             THEN /\ trace' = [trace EXCEPT ![c] =
                                 <<Request("acl.load", Ok), LogLine("info")>>]
                  /\ result' = [result EXCEPT ![c] =
                                  Returned([grants |-> remote[obj[c]].grants,
                                            owner |-> remote[obj[c]].owner])]
             ELSE /\ trace' = [trace EXCEPT ![c] = <<Request("acl.load", Ok)>>]
                  /\ result' = [result EXCEPT ![c] = Raised(KeyError)]
       \/ \E e \in AclErrors \cup {ClientError("NoSuchKey")} :
            /\ e.code = "NoSuchKey" <=> ~remote[obj[c]].exists
            /\ trace' = [trace EXCEPT ![c] =
                           IF IsClientError(e)
                           THEN <<Request("acl.load", e), LogLine("exception")>>
                           ELSE <<Request("acl.load", e)>>]
            /\ result' = [result EXCEPT ![c] = Raised(e)]

(* --------------------------- specifications --------------------------- *)

InitFacade ==
    /\ pc = [c \in Callers |-> "idle"]
    /\ op = [c \in Callers |-> NoOp]
    /\ local = [c \in Callers |-> NoLocal]
    /\ handle = [c \in Callers |-> "none"]
    /\ trace = [c \in Callers |-> <<>>]
    /\ result = [c \in Callers |-> NoResult]
    /\ pre = [c \in Callers |-> remote]
    /\ prev = [c \in Callers |-> NoPrev]
    /\ ncalls = [c \in Callers |-> 0]
    /\ order = <<>>

InitDriverIdle ==
    /\ dpc = "off"
    /\ dfile = 0
    /\ devents = <<>>

Path(i) == directory_file_names \o list_file_names[i]

\* The second build file is missing, the others can be opened.
FixtureFs == [p \in Paths |-> p # Path(2)]

\* The grant lists an object may start with: none, empty, the canned
\* public-read, and a list that already grants the driver's email.
InitGrants(owner) ==
    {GrantsNone, GrantsList(<<>>), GrantsList(PublicRead(owner)),
     GrantsList(<<OwnerGrant(owner), EmailGrant(DriverEmail)>>)}

\* The fixture bucket holds the keys in present; js/a.js starts with grants g.
FixtureRemote(present, g) ==
    [k \in AllKeys |->
       IF k \in present
       THEN Stored(<<255>>, IF k = KeyJsA THEN g ELSE GrantsList(Private(account)),
                   account)
       ELSE Absent]

\* A call is started: at most max per caller.
Count(c, max) ==
    /\ ncalls[c] < max
    /\ ncalls' = [ncalls EXCEPT ![c] = @ + 1]

\* What a step of a facade call leaves alone.
Frame == UNCHANGED <<envVars, obj, driverVars>>

Call(c, max) == Count(c, max) /\ Frame /\ UNCHANGED order

\* A call in progress takes its next step.
Step == Frame /\ UNCHANGED <<ncalls, order>>

\* Specification Spec: a single caller, c1, makes up to MaxCalls facade
\* calls, one after the other, on the object js/a.js of the fixture bucket.
Init ==
    /\ account \in Owners
    /\ fs = FixtureFs
    /\ \E present \in SUBSET {KeyJsA, KeyJsC}, g \in InitGrants(account) :
         remote = FixtureRemote(present \cup {KeyImgB}, g)
    /\ obj = [c \in Callers |-> KeyJsA]
    /\ InitFacade
    /\ InitDriverIdle

Next ==
    \/ \E data \in PutInputs : PutOpen("c1", data) /\ Call("c1", MaxCalls)
    \/ PutObject("c1") /\ Step
    \/ PutWait("c1") /\ Step
    \/ Get("c1") /\ Call("c1", MaxCalls)
    \/ \E prefix \in {PrefixNone, PrefixStr(<<"j","s","/">>)} :
         List("c1", prefix) /\ Call("c1", MaxCalls)
    \/ CopyFrom("c1", KeyJsC) /\ Call("c1", MaxCalls)
    \/ CopyWait("c1") /\ Step
    \/ \E email \in Emails : AclLoad("c1", email) /\ Call("c1", MaxCalls)
    \/ AclPut("c1") /\ Step
    \/ AclGet("c1") /\ Call("c1", MaxCalls)

Spec == Init /\ [][Next]_vars

\* Specification SpecRoundTrip: put and get, one after the other, on an
\* object that exists or not.
InitRoundTrip ==
    /\ account \in Owners
    /\ fs = FixtureFs
    /\ \E present \in SUBSET {KeyJsA} :
         remote = FixtureRemote(present \cup {KeyImgB}, GrantsList(Private(account)))
    /\ obj = [c \in Callers |-> KeyJsA]
    /\ InitFacade
    /\ InitDriverIdle

NextRoundTrip ==
    \/ \E data \in PutInputs : PutOpen("c1", data) /\ Call("c1", MaxSeqCalls)
    \/ PutObject("c1") /\ Step
    \/ PutWait("c1") /\ Step
    \/ Get("c1") /\ Call("c1", MaxSeqCalls)

SpecRoundTrip == InitRoundTrip /\ [][NextRoundTrip]_vars

\* Specification SpecAcl: put_acl and get_acl, one after the other, on an
\* object that exists, with any of the initial grant lists, or does not.
InitAcl ==
    /\ account \in Owners
    /\ fs = FixtureFs
    /\ \/ remote = FixtureRemote({KeyImgB}, GrantsNone)
       \/ \E g \in InitGrants(account) :
            remote = FixtureRemote({KeyJsA, KeyImgB}, g)
    /\ obj = [c \in Callers |-> KeyJsA]
    /\ InitFacade
    /\ InitDriverIdle

NextAcl ==
    \/ \E email \in Emails : AclLoad("c1", email) /\ Call("c1", MaxSeqCalls)
    \/ AclPut("c1") /\ Step
    \/ AclGet("c1") /\ Call("c1", MaxSeqCalls)

SpecAcl == InitAcl /\ [][NextAcl]_vars

\* Specification SpecList: list over every content of the fixture bucket.
InitList ==
    /\ account \in Owners
    /\ fs = FixtureFs
    /\ \E present \in SUBSET FixtureKeys :
         remote = FixtureRemote(present, GrantsList(Private(account)))
    /\ obj = [c \in Callers |-> KeyJsA]
    /\ InitFacade
    /\ InitDriverIdle

NextList ==
    \E prefix \in Prefixes : List("c1", prefix) /\ Call("c1", MaxCalls)

SpecList == InitList /\ [][NextList]_vars

\* Specification SpecRace: two callers, each with a facade of its own on the
\* same object, each run put_acl once; their remote requests interleave.
InitRace ==
    /\ account \in Owners
    /\ fs = FixtureFs
    /\ \E g \in InitGrants(account) :
         remote = FixtureRemote({KeyJsA, KeyImgB}, g)
    /\ obj = [c \in Callers |-> KeyJsA]
    /\ InitFacade
    /\ InitDriverIdle

RaceLoad(c) ==
    /\ \E email \in Emails : AclLoad(c, email)
    /\ Count(c, 1)
    /\ order' = Append(order, <<c, "acl.load">>)
    /\ Frame

RacePut(c) ==
    /\ AclPut(c)
    /\ order' = Append(order, <<c, "acl.put">>)
    /\ UNCHANGED ncalls
    /\ Frame

NextRace ==
    \/ \E c \in Callers : RaceLoad(c)
    \/ \E c \in Callers : RacePut(c)

SpecRace == InitRace /\ [][NextRace]_vars

(* ----------------------------- the driver ----------------------------- *)

\* One entry of the driver's history: a step of upload_react_files, the file
\* it is about (0: none) and how it ended.
Event(step, file, outcome) == [step |-> step, file |-> file, outcome |-> outcome]

\* Variant: the except clause has no else: raise.
RecoversAnyClientError(e) == IsClientError(e)

\* Lines 189-198: the except clause around put_acl and get_acl swallows a
\* ClientError with this code and re-raises every other ClientError; an
\* error that is no ClientError is not caught at all.
Recovers(e) == IsClientError(e) /\ e.code = Unresolvable

\* Lines 164-171: a ClientError of bucket.create is printed and the run goes
\* on; any other error propagates.
CreateRecovers(e) == IsClientError(e)

DriverFrame == UNCHANGED <<envVars, ncalls, order>>

\* Lines 162-171.
DriverCreate ==
    /\ dpc = "create"
    /\ \/ /\ devents' = Append(devents, Event("create", 0, Ok))
          /\ dpc' = "loop"
       \/ \E e \in RemoteErrors \cup {ClientError("BucketAlreadyOwnedByYou")} :
            /\ devents' = Append(devents, Event("create", 0, e))
            /\ dpc' = IF CreateRecovers(e) THEN "loop" ELSE "aborted"
    /\ UNCHANGED <<facadeVars, obj, dfile>>
    /\ DriverFrame

\* Lines 178-182: the next file of the list is put under its own key.
DriverPut ==
    /\ dpc = "loop"
    /\ dfile <= Len(list_file_names)
    /\ obj' = [obj EXCEPT !["c1"] = list_file_names[dfile]]
    /\ PutOpen("c1", StrData(directory_file_names \o list_file_names[dfile]))
    /\ devents' = Append(devents, Event("put.start", dfile, Ok))
    /\ dpc' = "put"
    /\ UNCHANGED dfile
    /\ DriverFrame

\* Line 200: the list is exhausted.
DriverEnd ==
    /\ dpc = "loop"
    /\ dfile > Len(list_file_names)
    /\ dpc' = "done"
    /\ UNCHANGED <<facadeVars, obj, dfile, devents>>
    /\ DriverFrame

\* Lines 182-186: an error of put propagates out of the driver; otherwise
\* put_acl is called.
DriverAfterPut ==
    /\ dpc = "put"
    /\ pc["c1"] = "done"
    /\ IF result["c1"].status = "raised"
       THEN /\ devents' = Append(devents, Event("put", dfile, result["c1"].err))
            /\ dpc' = "aborted"
            /\ UNCHANGED facadeVars
       ELSE /\ devents' = Append(devents, Event("put", dfile, Ok))
            /\ dpc' = "put_acl"
            /\ AclLoad("c1", DriverEmail)
    /\ UNCHANGED <<obj, dfile>>
    /\ DriverFrame

\* Lines 186-198: an error of put_acl reaches the except clause; otherwise
\* get_acl is called.
DriverAfterPutAcl ==
    /\ dpc = "put_acl"
    /\ pc["c1"] = "done"
    /\ IF result["c1"].status = "raised"
       THEN /\ devents' = Append(devents, Event("put_acl", dfile, result["c1"].err))
            /\ dpc' = IF Recovers(result["c1"].err) THEN "loop" ELSE "aborted"
            /\ dfile' = IF Recovers(result["c1"].err) THEN dfile + 1 ELSE dfile
            /\ UNCHANGED facadeVars
       ELSE /\ devents' = Append(devents, Event("put_acl", dfile, Ok))
            /\ dpc' = "get_acl"
            /\ AclGet("c1")
            /\ UNCHANGED dfile
    /\ UNCHANGED obj
    /\ DriverFrame

\* Lines 187-198: an error of get_acl reaches the same except clause;
\* otherwise the grants are printed and the loop goes on.
DriverAfterGetAcl ==
    /\ dpc = "get_acl"
    /\ pc["c1"] = "done"
    /\ IF result["c1"].status = "raised"
       THEN /\ devents' = Append(devents, Event("get_acl", dfile, result["c1"].err))
            /\ dpc' = IF Recovers(result["c1"].err) THEN "loop" ELSE "aborted"
            /\ dfile' = IF Recovers(result["c1"].err) THEN dfile + 1 ELSE dfile
       ELSE /\ devents' = Append(devents, Event("get_acl", dfile, Ok))
            /\ dpc' = "loop"
            /\ dfile' = dfile + 1
    /\ UNCHANGED <<facadeVars, obj>>
    /\ DriverFrame

\* Specification SpecDriver: one run of upload_react_files against an empty
\* bucket, with any of the build files present or missing.
InitDriver ==
    /\ account \in Owners
    /\ fs \in [Paths -> BOOLEAN]
    /\ remote = [k \in AllKeys |-> Absent]
    /\ obj = [c \in Callers |-> list_file_names[1]]
    /\ InitFacade
    /\ dpc = "create"
    /\ dfile = 1
    /\ devents = <<>>

NextDriver ==
    \/ DriverCreate
    \/ DriverPut
    \/ PutObject("c1") /\ Step
    \/ PutWait("c1") /\ Step
    \/ DriverAfterPut
    \/ AclPut("c1") /\ Step
    \/ DriverAfterPutAcl
    \/ DriverAfterGetAcl
    \/ DriverEnd

SpecDriver == InitDriver /\ [][NextDriver]_vars

(* ------------------------------- claims ------------------------------- *)

Done(c) == pc[c] = "done"

Ended(c, name, status) ==
    /\ Done(c)
    /\ op[c].name = name
    /\ result[c].status = status

\* The remote requests of a call, in order, without the log lines.
Requests(c) == SelectSeq(trace[c], LAMBDA t : t.kind = "remote")

ReadsBeforeWrites ==
    /\ Len(order) = 4
    /\ order[1][2] = "acl.load" /\ order[2][2] = "acl.load"
    /\ order[3][2] = "acl.put" /\ order[4][2] = "acl.put"

BothReturned == \A c \in Callers : Ended(c, "put_acl", "returned")

\* C1.  Two put_acl calls on the same object, both returned without error,
\* both having read the grant list before either wrote it: the list the
\* service ends with is the list both read plus the grant of the caller that
\* wrote last, and nothing else; the grant written first is overwritten.
\* Stated of SpecRace.
C1_LostUpdate ==
    (BothReturned /\ ReadsBeforeWrites) =>
        LET last == order[4][1]
            read == pre[last][KeyJsA].grants
            base == IF read.none THEN <<>> ELSE read.list
            final == remote[KeyJsA].grants
        IN  /\ \A c \in Callers : pre[c][KeyJsA].grants = read
            /\ ~final.none
            /\ Len(final.list) = Len(base) + 1
            /\ \A i \in 1..Len(base) : final.list[i] = base[i]
            /\ final.list[Len(base) + 1].Grantee.EmailAddress = op[last].arg

\* C1, reached: both calls returned, the two callers granted different
\* addresses, and the final list does not hold the grant written first.
C1_Witness ==
    /\ BothReturned
    /\ ReadsBeforeWrites
    /\ op[order[3][1]].arg # op[order[4][1]].arg
    /\ \A i \in 1..Len(remote[KeyJsA].grants.list) :
         LET g == remote[KeyJsA].grants.list[i].Grantee
         IN  g.Type = "AmazonCustomerByEmail" => g.EmailAddress # op[order[3][1]].arg

GetAclAfterPutAcl ==
    /\ Ended("c1", "get_acl", "returned")
    /\ prev["c1"].op.name = "put_acl"
    /\ prev["c1"].result.status = "returned"

\* C2.  A put_acl(e) that returned, followed by a get_acl that returned, with
\* no other caller: the grants get_acl yields are the grants the object had
\* before put_acl (none and empty alike count as no entries), each in its
\* place, followed by one entry of type AmazonCustomerByEmail, address e,
\* permission READ; the owner is the owner the object had.
\* Stated of SpecAcl.
C2_GrantAppended ==
    GetAclAfterPutAcl =>
        LET before == prev["c1"].pre[KeyJsA]
            old == IF before.grants.none THEN <<>> ELSE before.grants.list
            got == result["c1"].value
        IN  /\ ~got.grants.none
            /\ Len(got.grants.list) = Len(old) + 1
            /\ \A i \in 1..Len(old) : got.grants.list[i] = old[i]
            /\ got.grants.list[Len(old) + 1] =
                 [Grantee |-> [Type |-> "AmazonCustomerByEmail",
                               EmailAddress |-> prev["c1"].op.arg],
                  Permission |-> "READ"]
            /\ got.owner = before.owner

\* C2, reached: the list before put_acl already held entries, one of them a
\* grant to the same address.
C2_Witness ==
    /\ GetAclAfterPutAcl
    /\ LET old == prev["c1"].pre[KeyJsA].grants.list
       IN  /\ Len(old) = 2
           /\ old[2] = EmailGrant(prev["c1"].op.arg)

Mutation(c) == op[c].name \in {"put", "copy", "put_acl"}

\* C3, as claimed: whenever put, copy or put_acl raises, the service holds
\* what it held when the call started.  Stated of Spec, where it fails.
C3_RaisedMeansUnchanged ==
    (Done("c1") /\ Mutation("c1") /\ result["c1"].status = "raised") =>
        remote = pre["c1"]

\* The object a put of data creates, and the object a copy creates.
PutResult(data) ==
    [exists |-> TRUE,
     content |-> IF data.kind = "bytes" THEN data.bytes ELSE FileBytes(data.path),
     grants |-> [none |-> FALSE,
                 list |-> <<OwnerGrant(account), AllUsersGrant>>],
     owner |-> account]

CopyResult(source) ==
    [exists |-> TRUE, content |-> source.content,
     grants |-> [none |-> FALSE, list |-> <<OwnerGrant(account)>>],
     owner |-> account]

WriteSucceeded(c) ==
    \E i \in 1..Len(trace[c]) :
        /\ trace[c][i].call \in {"put", "copy_from", "acl.put"}
        /\ trace[c][i].outcome = Ok

\* C3, amended: when put, copy or put_acl raises and its remote write did
\* not succeed, the service holds what it held when the call started; when
\* the write succeeded, the call is a put or a copy whose existence poll
\* failed, and the service holds the whole new object (never a part of it)
\* and is otherwise unchanged.  Stated of Spec.
C3_RaisedUnchangedOrWritten ==
    (Done("c1") /\ Mutation("c1") /\ result["c1"].status = "raised") =>
        IF WriteSucceeded("c1")
        THEN /\ op["c1"].name \in {"put", "copy"}
             /\ trace["c1"][2].call = "wait_until_exists"
             /\ trace["c1"][2].outcome = result["c1"].err
             /\ remote =
                  IF op["c1"].name = "put"
                  THEN [pre["c1"] EXCEPT ![KeyJsA] = PutResult(op["c1"].arg)]
                  ELSE [pre["c1"] EXCEPT ![op["c1"].arg] =
                          CopyResult(pre["c1"][KeyJsA])]
        ELSE remote = pre["c1"]

\* C3, reached: a put raised the error of the poll after the object was
\* replaced.
C3_Witness ==
    /\ Ended("c1", "put", "raised")
    /\ result["c1"].err.type = "WaiterError"
    /\ remote # pre["c1"]

PutOfMissingFile(c) ==
    /\ pc[c] # "idle"
    /\ op[c].name = "put"
    /\ op[c].arg.kind = "str"
    /\ ~fs[op[c].arg.path]

\* C4.  put of a file name that cannot be opened ends at once with IOError:
\* no remote request is in its trace (neither put nor wait_until_exists)
\* and the service holds what it held.  Stated of Spec.
C4_NoRemoteCall ==
    PutOfMissingFile("c1") =>
        /\ Done("c1")
        /\ result["c1"].status = "raised"
        /\ result["c1"].err.type = "IOError"
        /\ Requests("c1") = <<>>
        /\ remote = pre["c1"]
        /\ handle["c1"] = "none"

\* C4, reached: a put of a missing file has ended, on an object that exists.
C4_Witness == PutOfMissingFile("c1") /\ Done("c1") /\ remote[KeyJsA].exists

\* C5.  When put has ended, however it ended, no handle is open: a put of a
\* file name that opened ends with the handle closed.  Stated of Spec.
C5_HandleClosed ==
    (Done("c1") /\ op["c1"].name = "put") =>
        /\ handle["c1"] # "open"
        /\ (op["c1"].arg.kind = "str" /\ fs[op["c1"].arg.path])
              => handle["c1"] = "closed"

\* C5, reached: the poll failed with an error that is no ClientError, after
\* the file was opened.
C5_Witness ==
    /\ Ended("c1", "put", "raised")
    /\ op["c1"].arg.kind = "str"
    /\ result["c1"].err.type = "WaiterError"
    /\ handle["c1"] = "closed"

\* C6.  In every facade call, a remote request that failed is the last
\* request of the call, the call has ended, and it raised that very error;
\* no remote request is made twice in one call.  Stated of Spec.
C6_Propagates ==
    LET reqs == Requests("c1")
    IN  /\ \A i \in 1..Len(reqs) :
              reqs[i].outcome # Ok =>
                  /\ i = Len(reqs)
                  /\ Done("c1")
                  /\ result["c1"].status = "raised"
                  /\ result["c1"].err = reqs[i].outcome
        /\ \A i, j \in 1..Len(reqs) : i # j => reqs[i].call # reqs[j].call

\* C6, reached: put_acl raised the service's error for a grantee address it
\* cannot resolve.
C6_Witness ==
    /\ Ended("c1", "put_acl", "raised")
    /\ result["c1"].err.type = "ClientError"
    /\ result["c1"].err.code = "UnresolvableGrantByEmailAddress"
    /\ Len(Requests("c1")) = 2

GetAfterPut ==
    /\ Ended("c1", "get", "returned")
    /\ prev["c1"].op.name = "put"
    /\ prev["c1"].result.status = "returned"

\* C8.  A put that returned, followed by a get that returned, with no other
\* caller: get yields the bytes put was given, or the bytes of the file put
\* was given the name of, all of them.  Stated of SpecRoundTrip.
C8_RoundTrip ==
    GetAfterPut =>
        LET data == prev["c1"].op.arg
        IN  result["c1"].value =
              IF data.kind = "bytes" THEN data.bytes ELSE FileBytes(data.path)

\* C8, reached: the bytes of a local file came back, and they are not the
\* bytes the object held before the put.
C8_Witness ==
    /\ GetAfterPut
    /\ prev["c1"].op.arg.kind = "str"
    /\ Len(result["c1"].value) = 1
    /\ prev["c1"].pre[KeyJsA].content # result["c1"].value

WriteOf(name) == IF name = "put" THEN "put" ELSE "copy_from"

\* C9.  A put or copy that returned made exactly the remote write, then the
\* existence poll, both successful, then logged success, and returned no
\* value; in any call the poll is requested only right after a successful
\* write.  Stated of Spec.
C9_WriteThenPoll ==
    op["c1"].name \in {"put", "copy"} =>
        LET w == WriteOf(op["c1"].name)
            t == trace["c1"]
        IN  /\ (Done("c1") /\ result["c1"].status = "returned") =>
                  /\ Len(t) = 3
                  /\ t[1].kind = "remote" /\ t[1].call = w /\ t[1].outcome = Ok
                  /\ t[2].kind = "remote" /\ t[2].call = "wait_until_exists"
                  /\ t[2].outcome = Ok
                  /\ t[3].kind = "log" /\ t[3].call = "info"
                  /\ result["c1"].value = "None"
            /\ \A i \in 1..Len(t) :
                  t[i].call = "wait_until_exists" =>
                      /\ i = 2
                      /\ t[1].call = w /\ t[1].outcome = Ok
            /\ pc["c1"] \in {"put.wait_until_exists", "copy.wait_until_exists"} =>
                  /\ Len(t) = 1
                  /\ t[1].call = w /\ t[1].outcome = Ok

\* C9, reached: a copy returned.
C9_Witness ==
    /\ Ended("c1", "copy", "returned")
    /\ remote[KeyJsC].content = remote[KeyJsA].content

IsPrefixOf(p, k) == \E n \in 0..Len(k) : p = [i \in 1..n |-> k[i]]

\* C10.  A list that returned yields exactly the keys of the bucket's
\* objects that start with the prefix, and all of them when the prefix is
\* None (the empty string is a prefix of every key).  Stated of SpecList.
C10_ListPrefix ==
    Ended("c1", "list", "returned") =>
        result["c1"].value =
            {k \in AllKeys :
                /\ remote[k].exists
                /\ (op["c1"].arg.none \/ IsPrefixOf(op["c1"].arg.str, k))}

\* C10, reached: the bucket holds js/a.js, img/b.png and js/c.js, the prefix
\* is js/, and the result is js/a.js and js/c.js.
C10_Witness ==
    /\ Ended("c1", "list", "returned")
    /\ \A k \in FixtureKeys : remote[k].exists
    /\ ~op["c1"].arg.none
    /\ op["c1"].arg.str = <<"j","s","/">>
    /\ result["c1"].value = {KeyJsA, KeyJsC}

GrantUnresolvable(ev) ==
    /\ ev.step = "put_acl"
    /\ ev.outcome.type = "ClientError"
    /\ ev.outcome.code = "UnresolvableGrantByEmailAddress"

\* C7, as claimed: in a run of the driver, after any failure other than a
\* put_acl that failed with the unresolvable-grantee code, no put of a file
\* returns: no later file is uploaded.  Stated of SpecDriver, where it fails.
C7_OnlyGrantFailureRecovered ==
    \A i, j \in 1..Len(devents) :
        (i < j /\ devents[i].outcome # Ok /\ ~GrantUnresolvable(devents[i]))
            => ~(devents[j].step = "put" /\ devents[j].outcome = Ok)

\* The failures the driver catches: a ClientError of bucket.create, and a
\* ClientError with the unresolvable-grantee code out of put_acl or get_acl.
Caught(ev) ==
    /\ ev.outcome.type = "ClientError"
    /\ \/ ev.step = "create"
       \/ /\ ev.step \in {"put_acl", "get_acl"}
          /\ ev.outcome.code = "UnresolvableGrantByEmailAddress"

\* C7, amended: after a failure the driver catches, the run goes on with
\* the put of the next file (the first file after bucket.create), or ends
\* normally when there is none; any other failure is the last thing that
\* happens: the run is aborted, and no file is put after it.
\* Stated of SpecDriver.
C7_CaughtOrFatal ==
    \A i \in 1..Len(devents) :
        devents[i].outcome # Ok =>
            IF Caught(devents[i])
            THEN /\ i = Len(devents) => dpc \in {"loop", "done"}
                 /\ i < Len(devents) =>
                      /\ devents[i + 1].step = "put.start"
                      /\ devents[i + 1].file = devents[i].file + 1
            ELSE /\ i = Len(devents)
                 /\ dpc = "aborted"

\* C7, reached: bucket.create failed with a ClientError, the grant on the
\* first file failed as unresolvable, the second file was put, and the run
\* was aborted by another failure.
C7_Witness ==
    /\ Len(devents) >= 5
    /\ devents[1].step = "create"
    /\ devents[1].outcome.type = "ClientError"
    /\ \E i \in 1..(Len(devents) - 1) :
         /\ GrantUnresolvable(devents[i])
         /\ devents[i].file = 1
         /\ devents[i + 1].step = "put.start"
         /\ devents[i + 1].file = 2
    /\ dpc = "aborted"

====
